---- MODULE Spec2Model ----
(***************************************************************************)
(* Model of the Digilent JTAG API mock (src/dpi/digilent_jtag_mock.cpp)    *)
(* and of the word-level shift helpers of the counter test suite           *)
(* (src/dpi/jtag_counter_tests.cpp).                                       *)
(*                                                                         *)
(* The program is single threaded.  One function runs at a time: pc names  *)
(* the running function ("idle" when none), and every call of one of the   *)
(* SystemVerilog primitives (sv_jtag_step, sv_drive_jtag_pins, sv_get_tdo) *)
(* is one step of the model.  calls is the list of primitive calls the     *)
(* running function has made so far; at pc = "return" the function has     *)
(* finished its work and holds its return value in ret.                    *)
(***************************************************************************)
EXTENDS Integers, Sequences, FiniteSets, TLC

VARIABLES
    device_registry,  \* std::map<HIF, JtagDevice>
    tap,              \* TAP controller state of the simulated circuit
    pc,               \* running function, or "idle"
    args,             \* arguments of the running function
    i,                \* loop position inside the running function
    result,           \* local accumulator of the word-level shifts
    calls,            \* primitive calls issued by the running function
    ret,              \* value returned by the running function
    out,              \* values written through the output pointers (freq_set, tdo, ...)
    tdo_data,         \* the caller's TDO byte array of a bulk shift
    start_tap,        \* TAP state when the running function was called
    start_registry,   \* device_registry when the running function was called
    lifecycle,        \* per handle, the last successful enable / disable seen by the caller
    prev,             \* the call that returned last, when it set a handle's frequency
    script,           \* the calls a scripted client still has to make (<<>>: no script)
    log,              \* every step issued since a scripted client started
    oracle,           \* what the simulated circuit answers on TDO: "any" bit, or the "idcode"
    pins_given,       \* per handle, the levels of its last successful djtg_set_tms_tdi_tck
    left_tap          \* per handle, the TAP state its last completed call left

vars == <<device_registry, tap, pc, args, i, result, calls, ret, out, tdo_data,
          start_tap, start_registry, lifecycle, prev, script, log, oracle,
          pins_given, left_tap>>

----------------------------------------------------------------------------
(* Bounds of the model *)

MaxBits == 4

MaxData == 10

Bit == {0, 1}

Handles == {1, 2}

----------------------------------------------------------------------------
(* Program constants *)

device_id == 305419896

TRUE_ == 1

FALSE_ == 0

RECURSIVE Pow2(_), Shr(_, _)
Pow2(n) ==
    IF n = 0 THEN 1 ELSE 2 * Pow2(n - 1)

\* x >> k, one bit at a time
Shr(x, k) ==
    IF k = 0 THEN x ELSE Shr(x \div 2, k - 1)

\* (x >> k) & 1
BitOf(x, k) ==
    Shr(x, k) % 2

\* x | (1 << k): bit k is added when clear, so no carry leaves the word
OrBit(x, k) ==
    IF BitOf(x, k) = 1 THEN x ELSE x + Pow2(k)

----------------------------------------------------------------------------
(* The simulated circuit: the IEEE 1149.1 TAP controller behind            *)
(* sv_jtag_step.  Each step is one TCK edge; the next state depends on TMS *)
(* only.  TDO is whatever the circuit drives: any bit.                     *)

TapStates ==
    {"TestLogicReset", "RunTestIdle",
     "SelectDRScan", "CaptureDR", "ShiftDR", "Exit1DR", "PauseDR", "Exit2DR", "UpdateDR",
     "SelectIRScan", "CaptureIR", "ShiftIR", "Exit1IR", "PauseIR", "Exit2IR", "UpdateIR"}

TapNext(s, tms) ==
    CASE s = "TestLogicReset" -> IF tms = 1 THEN "TestLogicReset" ELSE "RunTestIdle"
      [] s = "RunTestIdle"    -> IF tms = 1 THEN "SelectDRScan" ELSE "RunTestIdle"
      [] s = "SelectDRScan"   -> IF tms = 1 THEN "SelectIRScan" ELSE "CaptureDR"
      [] s = "CaptureDR"      -> IF tms = 1 THEN "Exit1DR" ELSE "ShiftDR"
      [] s = "ShiftDR"        -> IF tms = 1 THEN "Exit1DR" ELSE "ShiftDR"
      [] s = "Exit1DR"        -> IF tms = 1 THEN "UpdateDR" ELSE "PauseDR"
      [] s = "PauseDR"        -> IF tms = 1 THEN "Exit2DR" ELSE "PauseDR"
      [] s = "Exit2DR"        -> IF tms = 1 THEN "UpdateDR" ELSE "ShiftDR"
      [] s = "UpdateDR"       -> IF tms = 1 THEN "SelectDRScan" ELSE "RunTestIdle"
      [] s = "SelectIRScan"   -> IF tms = 1 THEN "TestLogicReset" ELSE "CaptureIR"
      [] s = "CaptureIR"      -> IF tms = 1 THEN "Exit1IR" ELSE "ShiftIR"
      [] s = "ShiftIR"        -> IF tms = 1 THEN "Exit1IR" ELSE "ShiftIR"
      [] s = "Exit1IR"        -> IF tms = 1 THEN "UpdateIR" ELSE "PauseIR"
      [] s = "PauseIR"        -> IF tms = 1 THEN "Exit2IR" ELSE "PauseIR"
      [] s = "Exit2IR"        -> IF tms = 1 THEN "UpdateIR" ELSE "ShiftIR"
      [] s = "UpdateIR"       -> IF tms = 1 THEN "SelectDRScan" ELSE "RunTestIdle"

\* The TDO a step may return.  The circuit drives any bit; with the IDCODE
\* instruction loaded, the k-th step (from 0) of a 32-bit shift of the data
\* register returns bit k of the device id.
TdoAnswers ==
    IF oracle = "idcode" /\ pc = "shift_data_register" /\ args.bit_count = 32
    THEN {BitOf(device_id, Len(calls))}
    ELSE IF oracle = "replay" /\ Len(calls) < Len(log)
    THEN {log[Len(calls) + 1]}
    ELSE IF oracle = "delay"
    THEN {IF calls = <<>> THEN 0 ELSE calls[Len(calls)].tdi}
    ELSE Bit

\* void sv_jtag_step(svBit tms, svBit tdi, svBit is_last, svBit* tdo_out)
sv_jtag_step(tms, tdi, is_last, tdo) ==
    /\ tap' = TapNext(tap, tms)
    /\ calls' = Append(calls, [prim |-> "sv_jtag_step", tms |-> tms, tdi |-> tdi,
                               is_last |-> is_last, tdo |-> tdo,
                               tap |-> TapNext(tap, tms)])

----------------------------------------------------------------------------
(* Function call and return *)

NoOut == <<>>

\* ret while no value has been returned: the function is running, is void,
\* or has handed its value to the caller.  No function returns a negative int.
NoValue == -1

Call(a) ==
    /\ pc = "idle"
    /\ pc' = a.fn
    /\ args' = a
    /\ i' = 0
    /\ result' = 0
    /\ calls' = <<>>
    /\ ret' = NoValue
    /\ UNCHANGED <<device_registry, tap, out, start_tap, start_registry, lifecycle>>

\* The return statement of fn: the locals are still in scope.
Return(fn, value) ==
    /\ pc = fn
    /\ pc' = "return"
    /\ ret' = value
    /\ UNCHANGED <<device_registry, tap, args, i, result, calls, out, tdo_data,
                   start_tap, start_registry, lifecycle>>

\* What the caller has seen of a handle's life: "never" enabled, or the last
\* of djtg_enable / djtg_disable that returned TRUE.
Observed(life, a, value) ==
    IF a.fn = "djtg_enable" /\ value = TRUE_ THEN [life EXCEPT ![a.hif] = "enabled"]
    ELSE IF a.fn = "djtg_disable" /\ value = TRUE_ THEN [life EXCEPT ![a.hif] = "disabled"]
    ELSE life

\* Control is back in the caller: the locals and the values handed back are
\* the caller's business from here on.
ReturnToCaller ==
    /\ pc = "return"
    /\ pc' = "idle"
    /\ args' = [fn |-> "none"]
    /\ i' = 0
    /\ result' = 0
    /\ calls' = <<>>
    /\ ret' = NoValue
    /\ out' = NoOut
    /\ tdo_data' = <<>>
    /\ start_tap' = tap
    /\ start_registry' = device_registry
    /\ lifecycle' = Observed(lifecycle, args, ret)
    /\ UNCHANGED <<device_registry, tap>>

----------------------------------------------------------------------------
(* TAP navigation helpers *)

\* One helper: the calls sv_jtag_step(tms_sequence[k], 0, 0, &tdo_bit) in order.
Navigate(fn, tms_sequence) ==
    \/ Call([fn |-> fn]) /\ UNCHANGED tdo_data
    \/ /\ pc = fn
       /\ i < Len(tms_sequence)
       /\ \E tdo \in TdoAnswers : sv_jtag_step(tms_sequence[i + 1], 0, 0, tdo)
       /\ i' = i + 1
       /\ UNCHANGED <<device_registry, pc, args, result, ret, out, tdo_data, start_tap, start_registry, lifecycle>>
    \/ /\ pc = fn
       /\ i = Len(tms_sequence)
       /\ Return(fn, NoValue)

\* A loop of four instead of five TMS = 1 clocks.
tap_reset_tms_short ==
    <<1, 1, 1, 1>> \o <<0>>

tap_reset_tms ==
    <<1, 1, 1, 1, 1>> \o <<0>>

tap_reset ==
    Navigate("tap_reset", tap_reset_tms)

\* The Shift-DR path taken for Shift-IR.
navigate_to_shift_ir_tms_dr_path ==
    <<1, 0, 0>>

navigate_to_shift_ir_tms ==
    <<1, 1, 0, 0>>

navigate_to_shift_ir ==
    Navigate("navigate_to_shift_ir", navigate_to_shift_ir_tms)

navigate_to_shift_dr_tms ==
    <<1, 0, 0>>

navigate_to_shift_dr ==
    Navigate("navigate_to_shift_dr", navigate_to_shift_dr_tms)

\* The idle clock after the navigation instead of before it.
navigate_to_shift_dr_with_idle_tms_idle_last ==
    <<1, 0, 0>> \o <<0>>

\* The extra idle clock left out.
navigate_to_shift_dr_with_idle_tms_no_idle ==
    <<1, 0, 0>>

navigate_to_shift_dr_with_idle_tms ==
    <<0>> \o <<1, 0, 0>>

navigate_to_shift_dr_with_idle ==
    Navigate("navigate_to_shift_dr_with_idle", navigate_to_shift_dr_with_idle_tms)

\* TMS = 0 first: Exit1 goes to Pause instead of Update.
exit_to_run_test_idle_tms_swapped ==
    <<0, 1>>

exit_to_run_test_idle_tms ==
    <<1, 0>>

exit_to_run_test_idle ==
    Navigate("exit_to_run_test_idle", exit_to_run_test_idle_tms)

----------------------------------------------------------------------------
(* Word-level shift helpers (jtag_counter_tests.cpp) *)

DataValues ==
    0 .. MaxData

BitCounts ==
    0 .. MaxBits

\* bool is_last = (i == bit_count - 1);
\* TMS is never raised in a shift of the instruction register.
shift_is_last_data_only(k, bit_count) ==
    IF k = bit_count - 1 /\ ~args.is_instruction THEN 1 ELSE 0

shift_is_last_one_late(k, bit_count) ==
    IF k = bit_count THEN 1 ELSE 0

shift_is_last(k, bit_count) ==
    IF k = bit_count - 1 THEN 1 ELSE 0

\* TDI taken from the high end of the word.
shift_data_register_bit_val_msb(data, bit_count, k) ==
    BitOf(data, bit_count - 1 - k)

\* bool bit_val = (data >> i) & 1;
shift_data_register_bit_val(data, bit_count, k) ==
    BitOf(data, k)

\* TDO stored from the high end of the word.
shift_data_register_capture_msb(res, bit_count, k, tdo) ==
    IF tdo = 1 THEN OrBit(res, bit_count - 1 - k) ELSE res

\* if (tdo_bit) result |= (1 << i);
shift_data_register_capture(res, bit_count, k, tdo) ==
    IF tdo = 1 THEN OrBit(res, k) ELSE res

\* uint32_t shift_data_register(int hif, uint32_t data, int bit_count, bool is_instruction)
\* called with a data word of datas and a bit count of bit_counts
ShiftDataRegister(datas, bit_counts) ==
    \/ \E hif \in Handles, data \in datas, bit_count \in bit_counts, is_instruction \in BOOLEAN :
          /\ Call([fn |-> "shift_data_register", hif |-> hif, data |-> data,
                   bit_count |-> bit_count, is_instruction |-> is_instruction])
          /\ UNCHANGED tdo_data
    \/ /\ pc = "shift_data_register"
       /\ i < args.bit_count
       /\ \E tdo \in TdoAnswers :
             /\ sv_jtag_step(shift_is_last(i, args.bit_count),
                             shift_data_register_bit_val(args.data, args.bit_count, i),
                             shift_is_last(i, args.bit_count), tdo)
             /\ result' = shift_data_register_capture(result, args.bit_count, i, tdo)
       /\ i' = i + 1
       /\ UNCHANGED <<device_registry, pc, args, ret, out, tdo_data, start_tap, start_registry, lifecycle>>
    \/ /\ pc = "shift_data_register"
       /\ i >= args.bit_count
       /\ Return("shift_data_register", result)

shift_data_register ==
    ShiftDataRegister(DataValues, BitCounts)

\* bool bit_val = (data >> (bit_count - 1 - i)) & 1;
shift_data_register_msb_first_bit_val(data, bit_count, k) ==
    BitOf(data, bit_count - 1 - k)

\* TDO stored from the low end of the word.
shift_data_register_msb_first_capture_lsb(res, bit_count, k, tdo) ==
    IF tdo = 1 THEN OrBit(res, k) ELSE res

\* if (tdo_bit) result |= (1 << (bit_count - 1 - i));
shift_data_register_msb_first_capture(res, bit_count, k, tdo) ==
    IF tdo = 1 THEN OrBit(res, bit_count - 1 - k) ELSE res

\* uint32_t shift_data_register_msb_first(int hif, uint32_t data, int bit_count)
shift_data_register_msb_first ==
    \/ \E hif \in Handles, data \in DataValues, bit_count \in BitCounts :
          /\ Call([fn |-> "shift_data_register_msb_first", hif |-> hif, data |-> data,
                   bit_count |-> bit_count])
          /\ UNCHANGED tdo_data
    \/ /\ pc = "shift_data_register_msb_first"
       /\ i < args.bit_count
       /\ \E tdo \in TdoAnswers :
             /\ sv_jtag_step(shift_is_last(i, args.bit_count),
                             shift_data_register_msb_first_bit_val(args.data, args.bit_count, i),
                             shift_is_last(i, args.bit_count), tdo)
             /\ result' = shift_data_register_msb_first_capture(result, args.bit_count, i, tdo)
       /\ i' = i + 1
       /\ UNCHANGED <<device_registry, pc, args, ret, out, tdo_data, start_tap, start_registry, lifecycle>>
    \/ /\ pc = "shift_data_register_msb_first"
       /\ i >= args.bit_count
       /\ Return("shift_data_register_msb_first", result)

----------------------------------------------------------------------------
(* Device registry and the Digilent API (digilent_jtag_mock.cpp) *)


default_clock_freq == 1000000

default_timeout_ms == 1000

max_freq == 50000000

min_freq == 1000

\* JtagDevice::JtagDevice()
JtagDevice ==
    [enabled |-> FALSE, clock_freq |-> default_clock_freq,
     tck_state |-> 0, tms_state |-> 0, tdi_state |-> 0, tdo_state |-> 0,
     device_id |-> device_id, timeout_ms |-> default_timeout_ms]

\* device_registry[hif] = dev: the entry is created when absent
Put(reg, hif, dev) ==
    [h \in (DOMAIN reg) \cup {hif} |-> IF h = hif THEN dev ELSE reg[h]]

\* Only the presence of the entry is tested, not its enabled flag.
NotEnabled_absent_only(reg, hif) ==
    hif \notin DOMAIN reg

\* it == device_registry.end() || !it->second.enabled
NotEnabled(reg, hif) ==
    hif \notin DOMAIN reg \/ ~reg[hif].enabled

simulate_timeout_inclusive(operation_time_ms, timeout_ms) ==
    operation_time_ms >= timeout_ms

\* bool simulate_timeout(int operation_time_ms, int timeout_ms)
simulate_timeout(operation_time_ms, timeout_ms) ==
    operation_time_ms > timeout_ms

\* int / int of C: the quotient is truncated towards zero
CDiv(a, b) ==
    IF a >= 0 THEN a \div b ELSE -((-a) \div b)

\* An API function that neither loops nor blocks: it runs from call to return
\* statement in one step.  cs are the primitive calls it made.
Finish(a, value, outs, cs) ==
    /\ pc = "idle"
    /\ pc' = "return"
    /\ args' = a
    /\ ret' = value
    /\ out' = outs
    /\ calls' = cs
    /\ UNCHANGED <<i, result, start_tap, start_registry, lifecycle>>

\* The entry is replaced before the communication error is looked at.
djtg_enable_registry_replace_first(reg, hif, comm_error) ==
    Put(reg, hif, [JtagDevice EXCEPT !.enabled = ~comm_error])

djtg_enable_registry_keep_entry(reg, hif, comm_error) ==
    IF comm_error THEN reg
    ELSE IF hif \in DOMAIN reg THEN [reg EXCEPT ![hif].enabled = TRUE]
    ELSE Put(reg, hif, [JtagDevice EXCEPT !.enabled = TRUE])

\* The registry after djtg_enable: untouched on a communication error,
\* otherwise a fresh JtagDevice with enabled = true.
djtg_enable_registry(reg, hif, comm_error) ==
    IF comm_error THEN reg ELSE Put(reg, hif, [JtagDevice EXCEPT !.enabled = TRUE])

\* int djtg_enable(int hif)
djtg_enable ==
    \E hif \in Handles, comm_error \in BOOLEAN :
        /\ Finish([fn |-> "djtg_enable", hif |-> hif],
                  IF comm_error THEN FALSE_ ELSE TRUE_, NoOut, <<>>)
        /\ device_registry' = djtg_enable_registry(device_registry, hif, comm_error)
        /\ UNCHANGED <<tap, tdo_data>>

\* int djtg_disable(int hif)
djtg_disable ==
    \E hif \in Handles :
        /\ IF NotEnabled(device_registry, hif)
           THEN /\ Finish([fn |-> "djtg_disable", hif |-> hif], FALSE_, NoOut, <<>>)
                /\ UNCHANGED device_registry
           ELSE /\ Finish([fn |-> "djtg_disable", hif |-> hif], TRUE_, NoOut, <<>>)
                /\ device_registry' = [device_registry EXCEPT ![hif].enabled = FALSE]
        /\ UNCHANGED <<tap, tdo_data>>

\* actual_freq of djtg_set_speed
actual_freq_no_max(freq_req) ==
    IF freq_req < min_freq THEN min_freq ELSE freq_req

actual_freq_no_min(freq_req) ==
    IF freq_req > max_freq THEN max_freq ELSE freq_req

actual_freq(freq_req) ==
    IF freq_req > max_freq THEN max_freq
    ELSE IF freq_req < min_freq THEN min_freq
    ELSE freq_req

\* int djtg_set_speed(int hif, int freq_req, int* freq_set)
djtg_set_speed(freq_reqs) ==
    \E hif \in Handles, freq_req \in freq_reqs :
        LET a == [fn |-> "djtg_set_speed", hif |-> hif, freq_req |-> freq_req] IN
        /\ IF NotEnabled(device_registry, hif)
           THEN /\ Finish(a, FALSE_, NoOut, <<>>)
                /\ UNCHANGED device_registry
           ELSE /\ Finish(a, TRUE_, [freq_set |-> actual_freq(freq_req)], <<>>)
                /\ device_registry' =
                      [device_registry EXCEPT ![hif].clock_freq = actual_freq(freq_req)]
        /\ UNCHANGED <<tap, tdo_data>>

\* int djtg_get_speed(int hif, int* freq_cur)
djtg_get_speed ==
    \E hif \in Handles :
        LET a == [fn |-> "djtg_get_speed", hif |-> hif] IN
        /\ IF NotEnabled(device_registry, hif)
           THEN Finish(a, FALSE_, NoOut, <<>>)
           ELSE Finish(a, TRUE_, [freq_cur |-> device_registry[hif].clock_freq], <<>>)
        /\ UNCHANGED <<device_registry, tap, tdo_data>>

\* void drive_jtag_pins(svBit tck_val, svBit tms_val, svBit tdi_val): one call
\* of sv_drive_jtag_pins, which sets pin levels and clocks nothing
drive_jtag_pins_tms_tdi_swapped(tck_val, tms_val, tdi_val) ==
    [prim |-> "sv_drive_jtag_pins", tck |-> tck_val, tms |-> tdi_val, tdi |-> tms_val]

drive_jtag_pins(tck_val, tms_val, tdi_val) ==
    [prim |-> "sv_drive_jtag_pins", tck |-> tck_val, tms |-> tms_val, tdi |-> tdi_val]

\* void read_jtag_pins(svBit* tdo_val): one call of sv_get_tdo
read_jtag_pins(tdo_val) ==
    [prim |-> "sv_get_tdo", tdo |-> tdo_val]

\* int djtg_set_tms_tdi_tck(int hif, svBit tms, svBit tdi, svBit tck)
djtg_set_tms_tdi_tck(levels) ==
    \E hif \in Handles, l \in levels :
        LET a == [fn |-> "djtg_set_tms_tdi_tck", hif |-> hif,
                  tms |-> l.tms, tdi |-> l.tdi, tck |-> l.tck] IN
        /\ IF NotEnabled(device_registry, hif)
           THEN /\ Finish(a, FALSE_, NoOut, <<>>)
                /\ UNCHANGED device_registry
           ELSE /\ Finish(a, TRUE_, NoOut, <<drive_jtag_pins(l.tck, l.tms, l.tdi)>>)
                /\ device_registry' =
                      [device_registry EXCEPT ![hif].tms_state = l.tms,
                                              ![hif].tdi_state = l.tdi,
                                              ![hif].tck_state = l.tck]
        /\ UNCHANGED <<tap, tdo_data>>

\* int djtg_get_tms_tdi_tdo_tck(int hif, svBit* tms, svBit* tdi, svBit* tdo, svBit* tck)
djtg_get_tms_tdi_tdo_tck ==
    \E hif \in Handles, tdo \in Bit :
        LET a == [fn |-> "djtg_get_tms_tdi_tdo_tck", hif |-> hif] IN
        /\ IF NotEnabled(device_registry, hif)
           THEN /\ Finish(a, FALSE_, NoOut, <<>>)
                /\ UNCHANGED device_registry
           ELSE /\ Finish(a, TRUE_,
                          [tms |-> device_registry[hif].tms_state,
                           tdi |-> device_registry[hif].tdi_state,
                           tck |-> device_registry[hif].tck_state,
                           tdo |-> tdo],
                          <<read_jtag_pins(tdo)>>)
                /\ device_registry' = [device_registry EXCEPT ![hif].tdo_state = tdo]
        /\ UNCHANGED <<tap, tdo_data>>

\* int byte_count = (cbit + 7) / 8;
byte_count(cbit) ==
    CDiv(cbit + 7, 8)

ClearBytes_skipped(bytes, n) ==
    bytes

\* for (i = 0; i < byte_count; i++) tdo_ptr[i] = 0;
ClearBytes(bytes, n) ==
    [k \in 1 .. Len(bytes) |-> IF k <= n THEN 0 ELSE bytes[k]]

ArrayBit_msb_first(bytes, bit_idx) ==
    BitOf(bytes[(bit_idx \div 8) + 1], 7 - (bit_idx % 8))

\* (array[byte_idx] >> bit_pos) & 1 with byte_idx = bit_idx / 8, bit_pos = bit_idx % 8
ArrayBit(bytes, bit_idx) ==
    BitOf(bytes[(bit_idx \div 8) + 1], bit_idx % 8)

\* if (tdo_bit) tdo_ptr[byte_idx] |= (1 << bit_pos);
StoreTdo(bytes, bit_idx, tdo) ==
    IF tdo = 1
    THEN [bytes EXCEPT ![(bit_idx \div 8) + 1] = OrBit(@, bit_idx % 8)]
    ELSE bytes

\* svBit is_last = (bit_idx == cbit - 1) ? 1 : 0;
bulk_is_last(bit_idx, cbit) ==
    IF bit_idx = cbit - 1 THEN 1 ELSE 0

\* The pre-flight checks of djtg_put_tms_tdi_bits: "ok" when they pass.
PreFlight(reg, hif, cbit) ==
    IF NotEnabled(reg, hif) THEN "NotEnabled"
    ELSE IF simulate_timeout(CDiv(cbit, 1000), reg[hif].timeout_ms) THEN "Timeout"
    ELSE "ok"

\* The three arrays of a call hold the bytes the call touches.
ArraysFit(cbit, tms_data, tdi_data, tdo_in) ==
    /\ byte_count(cbit) <= Len(tms_data)
    /\ byte_count(cbit) <= Len(tdi_data)
    /\ byte_count(cbit) <= Len(tdo_in)

bulk_more_stops_early(bit_idx, cbit) ==
    bit_idx < cbit - 1

\* for (int bit_idx = 0; bit_idx < cbit; bit_idx++): the loop goes on
bulk_more(bit_idx, cbit) ==
    bit_idx < cbit

put_args_get_swaps_vectors(a) ==
    IF a.fn = "djtg_get_tms_tdi_tdo_bits"
    THEN [a EXCEPT !.tms_data = a.tdi_data, !.tdi_data = a.tms_data]
    ELSE a

\* The arguments djtg_put_tms_tdi_bits runs with when the client called a.fn
\* with a: its own, or the ones djtg_get_tms_tdi_tdo_bits hands over, which
\* are its own in the same order.
put_args(a) ==
    a

registry_after_bit_keeps_tdo(reg, hif, tdo) ==
    [reg EXCEPT ![hif].tdo_state = tdo]

\* The registry after one pass of the loop, which reads it->second and
\* writes nothing to it.
registry_after_bit(reg, hif, tdo) ==
    reg

\* int djtg_put_tms_tdi_bits(int hif, tms_data, tdi_data, tdo_data, int cbit, svBit overlap)
\* called as fn: djtg_get_tms_tdi_tdo_bits does nothing but call it.
BulkShift(fn, tms_vectors, tdi_vectors, tdo_arrays, cbits, overlaps) ==
    \/ \E hif \in Handles, tms_data \in tms_vectors, tdi_data \in tdi_vectors,
          tdo_in \in tdo_arrays, cbit \in cbits, overlap \in overlaps :
          LET a == [fn |-> fn, hif |-> hif, tms_data |-> tms_data, tdi_data |-> tdi_data,
                    tdo_in |-> tdo_in, cbit |-> cbit, overlap |-> overlap] IN
          /\ pc = "idle"
          /\ IF PreFlight(device_registry, hif, cbit) # "ok"
             THEN /\ Finish(a, FALSE_, NoOut, <<>>)
                  /\ tdo_data' = tdo_in
             ELSE /\ ArraysFit(cbit, tms_data, tdi_data, tdo_in)
                  /\ Call(a)
                  /\ tdo_data' = ClearBytes(tdo_in, byte_count(cbit))
          /\ UNCHANGED <<device_registry, tap>>
    \/ /\ pc = fn
       /\ bulk_more(i, put_args(args).cbit)
       /\ \E tdo \in TdoAnswers :
             /\ sv_jtag_step(ArrayBit(put_args(args).tms_data, i),
                             ArrayBit(put_args(args).tdi_data, i),
                             bulk_is_last(i, put_args(args).cbit), tdo)
             /\ tdo_data' = StoreTdo(tdo_data, i, tdo)
             /\ device_registry' = registry_after_bit(device_registry, put_args(args).hif, tdo)
       /\ i' = i + 1
       /\ UNCHANGED <<pc, args, result, ret, out, start_tap, start_registry, lifecycle>>
    \/ /\ pc = fn
       /\ ~bulk_more(i, put_args(args).cbit)
       /\ Return(fn, TRUE_)

\* The pre-flight checks alone, on a bit count of any size: the verdict the
\* bulk shift would reach before its first step.
pre_flight(cbits) ==
    \E hif \in Handles, cbit \in cbits :
        LET verdict == PreFlight(device_registry, hif, cbit) IN
        /\ Finish([fn |-> "pre_flight", hif |-> hif, cbit |-> cbit],
                  IF verdict = "ok" THEN TRUE_ ELSE FALSE_,
                  [verdict |-> verdict], <<>>)
        /\ UNCHANGED <<device_registry, tap, tdo_data>>

----------------------------------------------------------------------------

\* The state after construction, the client aside.
Start ==
    /\ device_registry = <<>>
    /\ tap = "TestLogicReset"
    /\ pc = "idle"
    /\ args = [fn |-> "none"]
    /\ i = 0
    /\ result = 0
    /\ calls = <<>>
    /\ ret = NoValue
    /\ out = NoOut
    /\ tdo_data = <<>>
    /\ start_tap = "TestLogicReset"
    /\ start_registry = <<>>
    /\ lifecycle = [h \in Handles |-> "never"]
    /\ prev = [fn |-> "other"]
    /\ pins_given = [h \in Handles |-> [tms |-> 0, tdi |-> 0, tck |-> 0]]
    /\ left_tap = [h \in Handles |-> "TestLogicReset"]

Init ==
    /\ Start
    /\ script = <<>>
    /\ log = <<>>
    /\ oracle = "any"

TapActions ==
    \/ tap_reset
    \/ navigate_to_shift_ir
    \/ navigate_to_shift_dr
    \/ navigate_to_shift_dr_with_idle
    \/ exit_to_run_test_idle
    \/ shift_data_register
    \/ shift_data_register_msb_first
    \/ ReturnToCaller

NextTap ==
    /\ TapActions
    /\ UNCHANGED <<prev, script, log, oracle, pins_given, left_tap>>

SpecTap ==
    Init /\ [][NextTap]_vars

----------------------------------------------------------------------------
(* The API driven by a client: every function of the extern "C" interface, *)
(* on two handles.                                                         *)

MaxCbit == 2

\* The least bit count the default timeout refuses.
TimeoutCbit ==
    (default_timeout_ms + 1) * 1000

ApiCbits ==
    (0 .. MaxCbit) \cup {TimeoutCbit}

ApiFreqRequests ==
    {-1, 0, 10, 1000, 2000000, 50000000, 100000000}

ApiLevels ==
    {[tms |-> 1, tdi |-> 0, tck |-> 1]}

djtg_put_tms_tdi_bits ==
    BulkShift("djtg_put_tms_tdi_bits", {<<0>>}, {<<1>>}, {<<255>>}, ApiCbits, {0})

djtg_get_tms_tdi_tdo_bits ==
    BulkShift("djtg_get_tms_tdi_tdo_bits", {<<0>>}, {<<1>>}, {<<255>>}, ApiCbits, {1})

ApiActions ==
    \/ djtg_enable
    \/ djtg_disable
    \/ djtg_set_speed(ApiFreqRequests)
    \/ djtg_get_speed
    \/ djtg_set_tms_tdi_tck(ApiLevels)
    \/ djtg_get_tms_tdi_tdo_tck
    \/ djtg_put_tms_tdi_bits
    \/ djtg_get_tms_tdi_tdo_bits
    \/ ReturnToCaller

\* What the caller remembers of the call that has just returned: a successful
\* djtg_enable, or a successful djtg_set_speed with the frequency it reported.
Remember(a, value, outs) ==
    IF a.fn = "djtg_enable" /\ value = TRUE_
    THEN [fn |-> a.fn, hif |-> a.hif]
    ELSE IF a.fn = "djtg_set_speed" /\ value = TRUE_
    THEN [fn |-> a.fn, hif |-> a.hif, freq_set |-> outs.freq_set]
    ELSE [fn |-> "other"]

Next ==
    /\ ApiActions
    /\ prev' = IF pc = "return" THEN Remember(args, ret, out) ELSE prev
    /\ UNCHANGED <<script, log, oracle, pins_given, left_tap>>

Spec ==
    Init /\ [][Next]_vars

----------------------------------------------------------------------------
(* A client that makes a fixed sequence of calls *)

\* A reset, a navigation to Shift-IR, the exit to Run-Test-Idle and a
\* navigation to Shift-DR with the idle clock; "end": the client stops.
NavigationScript ==
    <<"tap_reset", "navigate_to_shift_ir", "exit_to_run_test_idle",
      "navigate_to_shift_dr_with_idle", "end">>

InitScript ==
    /\ Start
    /\ script = NavigationScript
    /\ log = <<>>
    /\ oracle = "any"

ScriptActions ==
    \/ tap_reset
    \/ navigate_to_shift_ir
    \/ exit_to_run_test_idle
    \/ navigate_to_shift_dr_with_idle
    \/ ReturnToCaller

\* The client calls the head of its script and nothing else; every primitive
\* call a function makes is added to the log.
NextScript ==
    /\ ScriptActions
    /\ IF pc = "idle"
       THEN pc' = Head(script) /\ script' = Tail(script)
       ELSE script' = script
    /\ log' = IF Len(calls') > Len(calls) THEN Append(log, calls'[Len(calls')]) ELSE log
    /\ UNCHANGED <<prev, oracle, pins_given, left_tap>>

SpecScript ==
    InitScript /\ [][NextScript]_vars

----------------------------------------------------------------------------
(* The client of run_counter_jtag_tests up to the IDCODE read *)

EndOfScript ==
    [fn |-> "end"]

\* djtg_enable(1), djtg_set_speed(1, 10000000), tap_reset, then
\* test_counter_idcode up to the 32-bit shift of the data register.
IdcodeScript ==
    <<[fn |-> "djtg_enable", hif |-> 1],
      [fn |-> "djtg_set_speed", hif |-> 1, freq_req |-> 10000000],
      [fn |-> "tap_reset"],
      [fn |-> "navigate_to_shift_ir"],
      [fn |-> "shift_data_register", hif |-> 1, data |-> 1, bit_count |-> 4,
       is_instruction |-> TRUE],
      [fn |-> "exit_to_run_test_idle"],
      [fn |-> "navigate_to_shift_dr_with_idle"],
      [fn |-> "shift_data_register", hif |-> 1, data |-> 0, bit_count |-> 32,
       is_instruction |-> FALSE],
      EndOfScript>>

InitIdcode ==
    /\ Start
    /\ script = IdcodeScript
    /\ log = <<>>
    /\ oracle = "idcode"

\* The client makes the call at the head of its script, with these arguments;
\* it gives up (if (!djtg_enable(hif)) return;) when djtg_enable or
\* djtg_set_speed has returned FALSE.
ScriptedClient ==
    IF pc = "idle"
    THEN args' = Head(script) /\ script' = Tail(script)
    ELSE IF pc = "return" /\ args.fn \in {"djtg_enable", "djtg_set_speed"} /\ ret = FALSE_
    THEN script' = <<EndOfScript>>
    ELSE script' = script

IdcodeActions ==
    \/ djtg_enable
    \/ djtg_set_speed({10000000})
    \/ tap_reset
    \/ navigate_to_shift_ir
    \/ ShiftDataRegister({0, 1}, {4, 32})
    \/ exit_to_run_test_idle
    \/ navigate_to_shift_dr_with_idle
    \/ ReturnToCaller

NextIdcode ==
    /\ IdcodeActions
    /\ ScriptedClient
    /\ UNCHANGED <<prev, log, oracle, pins_given, left_tap>>

SpecIdcode ==
    InitIdcode /\ [][NextIdcode]_vars

----------------------------------------------------------------------------
(* run_counter_jtag_tests: the nine tests as the calls they make, in order *)

\* A call of a navigation helper.
Nav(fn) ==
    [fn |-> fn]

\* shift_data_register(hif, data, bit_count, is_instruction) as the tests call it.
Shift(data, bit_count, is_instruction) ==
    [fn |-> "shift_data_register", hif |-> 1, data |-> data, bit_count |-> bit_count,
     is_instruction |-> is_instruction]

\* sv_jtag_step(tms, tdi, 0, &tdo_bit) called by a test itself.
Step(tms, tdi) ==
    [fn |-> "sv_jtag_step", tms |-> tms, tdi |-> tdi, is_last |-> 0]

\* for (i = 0; i < n; i++) sv_jtag_step(0, (pattern >> (n - 1 - i)) & 1, 0, &tdo_bit);
StepsMsbFirst(pattern, n) ==
    [k \in 1 .. n |-> Step(0, BitOf(pattern, n - k))]

\* sv_jtag_step(tms_sequence[k], 0, 0, &tdo_bit) one after the other.
StepsTms(tms_sequence) ==
    [k \in 1 .. Len(tms_sequence) |-> Step(tms_sequence[k], 0)]

\* The return statement of a test.
TestReturn(test) ==
    [fn |-> "test_return", test |-> test]

test_counter_idcode ==
    << Nav("navigate_to_shift_ir"), Shift(1, 4, TRUE), Nav("exit_to_run_test_idle"),
       Nav("navigate_to_shift_dr_with_idle"), Shift(0, 32, FALSE),
       Nav("exit_to_run_test_idle"), TestReturn("test_counter_idcode") >>

test_boundary_scan_sample ==
    << Nav("navigate_to_shift_ir"), Shift(2, 4, TRUE), Nav("exit_to_run_test_idle"),
       Nav("navigate_to_shift_dr"), Shift(0, 9, FALSE), Nav("exit_to_run_test_idle"),
       TestReturn("test_boundary_scan_sample") >>

test_boundary_scan_extest ==
    << Nav("navigate_to_shift_ir"), Shift(2, 4, TRUE), Nav("exit_to_run_test_idle"),
       Nav("navigate_to_shift_dr"), Shift(431, 9, FALSE), Nav("exit_to_run_test_idle"),
       Nav("navigate_to_shift_ir"), Shift(0, 4, TRUE), Nav("exit_to_run_test_idle"),
       [fn |-> "wait_cycles", cycles |-> 5],
       Nav("navigate_to_shift_ir"), Shift(2, 4, TRUE), Nav("exit_to_run_test_idle"),
       Nav("navigate_to_shift_dr"), Shift(0, 9, FALSE), Nav("exit_to_run_test_idle"),
       TestReturn("test_boundary_scan_extest") >>

test_bypass ==
    << Nav("navigate_to_shift_ir"), Shift(15, 4, TRUE), Nav("exit_to_run_test_idle"),
       Nav("navigate_to_shift_dr") >>
    \o StepsMsbFirst(170, 8)
    \o << Nav("exit_to_run_test_idle"), TestReturn("test_bypass") >>

test_preload_instruction ==
    << Nav("navigate_to_shift_ir"), Shift(2, 4, TRUE), Nav("exit_to_run_test_idle"),
       Nav("navigate_to_shift_dr") >>
    \o StepsMsbFirst(421, 9)
    \o << Nav("exit_to_run_test_idle"), TestReturn("test_preload_instruction") >>

test_unknown_instruction ==
    << Nav("navigate_to_shift_ir"), Shift(5, 4, TRUE), Nav("exit_to_run_test_idle"),
       Nav("navigate_to_shift_dr") >>
    \o StepsMsbFirst(51, 8)
    \o << Nav("exit_to_run_test_idle"), TestReturn("test_unknown_instruction") >>

test_instruction_register_capture ==
    << Nav("navigate_to_shift_ir") >>
    \o StepsTms(<<0, 0, 0, 0>>)
    \o << Nav("exit_to_run_test_idle"), TestReturn("test_instruction_register_capture") >>

test_complex_instruction_sequence ==
    << Nav("tap_reset"),
       Nav("navigate_to_shift_ir"), Shift(1, 4, TRUE), Nav("exit_to_run_test_idle"),
       Nav("navigate_to_shift_dr"), Shift(0, 32, FALSE), Nav("exit_to_run_test_idle"),
       Nav("navigate_to_shift_ir"), Shift(2, 4, TRUE), Nav("exit_to_run_test_idle"),
       Nav("navigate_to_shift_dr"), Shift(0, 9, FALSE), Nav("exit_to_run_test_idle"),
       Nav("navigate_to_shift_ir"), Shift(0, 4, TRUE), Nav("exit_to_run_test_idle"),
       Nav("navigate_to_shift_dr"), Shift(431, 9, FALSE), Nav("exit_to_run_test_idle"),
       Nav("navigate_to_shift_ir"), Shift(15, 4, TRUE), Nav("exit_to_run_test_idle"),
       Nav("navigate_to_shift_dr"),
       Step(0, 1), Step(0, 1), Step(0, 1), Step(0, 1),
       Nav("exit_to_run_test_idle"), TestReturn("test_complex_instruction_sequence") >>

test_tap_state_transitions ==
    StepsTms(<<1, 1, 1, 1, 1,  0,  1, 1, 0, 0,  1, 1, 0,  1, 0, 0,  1, 1, 0>>)
    \o << TestReturn("test_tap_state_transitions") >>

run_counter_jtag_tests ==
    << [fn |-> "djtg_enable", hif |-> 1],
       [fn |-> "djtg_set_speed", hif |-> 1, freq_req |-> 10000000],
       Nav("tap_reset") >>
    \o test_counter_idcode
    \o test_boundary_scan_sample
    \o test_boundary_scan_extest
    \o test_bypass
    \o test_preload_instruction
    \o test_unknown_instruction
    \o test_instruction_register_capture
    \o test_complex_instruction_sequence
    \o test_tap_state_transitions
    \o << [fn |-> "djtg_disable", hif |-> 1], EndOfScript >>

\* The tests whose return value does not depend on what they read.
AlwaysPass ==
    {"test_preload_instruction", "test_unknown_instruction",
     "test_instruction_register_capture", "test_tap_state_transitions"}

\* A test returns 1 (passed) or 0.
test_return ==
    \E test \in {run_counter_jtag_tests[k].test :
                     k \in {j \in 1 .. Len(run_counter_jtag_tests) :
                               run_counter_jtag_tests[j].fn = "test_return"}},
       passed \in Bit :
        /\ test \in AlwaysPass => passed = 1
        /\ Finish(TestReturn(test), passed, NoOut, <<>>)
        /\ UNCHANGED <<device_registry, tap, tdo_data>>

\* One sv_jtag_step(tms, tdi, 0, &tdo_bit) of a test.
test_step ==
    \E tms \in Bit, tdi \in Bit, tdo \in TdoAnswers :
        /\ pc = "idle"
        /\ pc' = "return"
        /\ args' = Step(tms, tdi)
        /\ sv_jtag_step(tms, tdi, 0, tdo)
        /\ ret' = NoValue
        /\ out' = [tdo_bit |-> tdo]
        /\ UNCHANGED <<device_registry, i, result, tdo_data, start_tap, start_registry,
                       lifecycle>>

\* void wait_cycles(int cycles)
wait_cycles ==
    \E cycles \in {5} :
        /\ Finish([fn |-> "wait_cycles", cycles |-> cycles], NoValue, NoOut,
                  <<[prim |-> "sv_wait_cycles", cycles |-> cycles]>>)
        /\ UNCHANGED <<device_registry, tap, tdo_data>>

InitRun ==
    /\ Start
    /\ script = run_counter_jtag_tests
    /\ log = <<>>
    /\ oracle = "idcode"

RunActions ==
    \/ djtg_enable
    \/ djtg_set_speed({10000000})
    \/ djtg_disable
    \/ tap_reset
    \/ navigate_to_shift_ir
    \/ navigate_to_shift_dr
    \/ navigate_to_shift_dr_with_idle
    \/ exit_to_run_test_idle
    \/ ShiftDataRegister({0, 1, 2, 5, 15, 431}, {4, 9, 32})
    \/ test_step
    \/ wait_cycles
    \/ test_return
    \/ ReturnToCaller

NextRun ==
    /\ RunActions
    /\ ScriptedClient
    /\ UNCHANGED <<prev, log, oracle, pins_given, left_tap>>

SpecRun ==
    InitRun /\ [][NextRun]_vars

----------------------------------------------------------------------------
(* A client that makes the same shift_data_register call twice, with the other
   value of is_instruction, against a circuit that answers the same *)

PairActions ==
    \/ shift_data_register
    \/ ReturnToCaller

\* prev keeps the first call of the pair with the steps it made and the value
\* it returned, log the TDO answers it got, which the circuit gives again to
\* the second call.
NextPair ==
    /\ PairActions
    /\ (pc = "idle" /\ prev.fn = "shift_data_register") =>
          /\ args'.data = prev.data
          /\ args'.bit_count = prev.bit_count
          /\ args'.is_instruction = ~prev.is_instruction
    /\ IF pc = "return" /\ prev.fn = "other"
       THEN /\ prev' = [fn |-> args.fn, data |-> args.data, bit_count |-> args.bit_count,
                        is_instruction |-> args.is_instruction, calls |-> calls,
                        ret |-> ret]
            /\ log' = [k \in 1 .. Len(calls) |-> calls[k].tdo]
            /\ oracle' = "replay"
       ELSE IF pc = "return"
       THEN /\ prev' = [fn |-> "other"]
            /\ log' = <<>>
            /\ oracle' = "any"
       ELSE UNCHANGED <<prev, log, oracle>>
    /\ UNCHANGED <<script, pins_given, left_tap>>

SpecPair ==
    Init /\ [][NextPair]_vars

----------------------------------------------------------------------------
(* The shift of test_bypass through the bypass register, for any test pattern *)

bypass_bits == 8

TestPatterns ==
    0 .. (Pow2(bypass_bits) - 1)

\* TDI taken from the low end of the pattern.
test_bypass_tdi_bit_lsb_first(test_pattern, k) ==
    BitOf(test_pattern, k)

\* bool tdi_bit = (test_pattern >> (7 - i)) & 1;
test_bypass_tdi_bit(test_pattern, k) ==
    BitOf(test_pattern, bypass_bits - 1 - k)

\* received_data |= (tdo_bit ? 1 : 0) << (7 - i);
test_bypass_receive(received_data, k, tdo) ==
    IF tdo = 1 THEN OrBit(received_data, bypass_bits - 1 - k) ELSE received_data

\* uint32_t expected_delayed = (test_pattern >> 1) | ((test_pattern & 1) << 7);
expected_delayed(test_pattern) ==
    Shr(test_pattern, 1) + (test_pattern % 2) * Pow2(bypass_bits - 1)

\* The loop of test_bypass and its verdict: eight steps with TMS = 0 and the
\* pattern on TDI from the high end, the TDO bits collected from the high end
\* (result is received_data), 1 returned when the value collected is
\* expected_delayed.  The navigation calls around the loop are in the script
\* test_bypass.
test_bypass_shift ==
    \/ \E test_pattern \in TestPatterns :
          /\ Call([fn |-> "test_bypass_shift", hif |-> 1, test_pattern |-> test_pattern])
          /\ UNCHANGED tdo_data
    \/ /\ pc = "test_bypass_shift"
       /\ i < bypass_bits
       /\ \E tdo \in TdoAnswers :
             /\ sv_jtag_step(0, test_bypass_tdi_bit(args.test_pattern, i), 0, tdo)
             /\ result' = test_bypass_receive(result, i, tdo)
       /\ i' = i + 1
       /\ UNCHANGED <<device_registry, pc, args, ret, out, tdo_data, start_tap,
                      start_registry, lifecycle>>
    \/ /\ pc = "test_bypass_shift"
       /\ i >= bypass_bits
       /\ Return("test_bypass_shift",
                 IF result = expected_delayed(args.test_pattern) THEN 1 ELSE 0)

\* The circuit answers each step with the TDI of the step before, 0 at first.
InitBypass ==
    /\ Start
    /\ script = <<>>
    /\ log = <<>>
    /\ oracle = "delay"

BypassActions ==
    \/ test_bypass_shift
    \/ ReturnToCaller

NextBypass ==
    /\ BypassActions
    /\ UNCHANGED <<prev, script, log, oracle, pins_given, left_tap>>

SpecBypass ==
    InitBypass /\ [][NextBypass]_vars

----------------------------------------------------------------------------
(* A client of the static pin functions *)

PinLevels ==
    [tms : Bit, tdi : Bit, tck : Bit]

PinActions ==
    \/ djtg_enable
    \/ djtg_disable
    \/ djtg_set_tms_tdi_tck(PinLevels)
    \/ djtg_get_tms_tdi_tdo_tck
    \/ ReturnToCaller

\* What the client knows of the pins of each handle: the levels it gave in its
\* last successful djtg_set_tms_tdi_tck, all low after a successful djtg_enable.
PinsGiven ==
    pins_given' =
        IF pc = "return" /\ ret = TRUE_ /\ args.fn = "djtg_set_tms_tdi_tck"
        THEN [pins_given EXCEPT ![args.hif] =
                 [tms |-> args.tms, tdi |-> args.tdi, tck |-> args.tck]]
        ELSE IF pc = "return" /\ ret = TRUE_ /\ args.fn = "djtg_enable"
        THEN [pins_given EXCEPT ![args.hif] = [tms |-> 0, tdi |-> 0, tck |-> 0]]
        ELSE pins_given

NextPins ==
    /\ PinActions
    /\ PinsGiven
    /\ UNCHANGED <<prev, script, log, oracle, left_tap>>

SpecPins ==
    Init /\ [][NextPins]_vars

----------------------------------------------------------------------------
(* A client that works on two handles in turn *)

HandleFreqRequests ==
    {1000, 2000000}

HandleActions ==
    \/ djtg_enable
    \/ djtg_set_speed(HandleFreqRequests)
    \/ djtg_set_tms_tdi_tck(ApiLevels)
    \/ BulkShift("djtg_put_tms_tdi_bits", {<<2>>}, {<<1>>}, {<<255>>}, 0 .. MaxCbit, {0})
    \/ ReturnToCaller

\* Per handle, the TAP state that the calls made on this handle alone lead to:
\* the state in which the handle's last call left the TAP, the state after
\* construction before its first call.
LeftTap ==
    left_tap' =
        IF pc = "return" /\ args.fn # "none"
        THEN [left_tap EXCEPT ![args.hif] = tap]
        ELSE left_tap

NextHandles ==
    /\ HandleActions
    /\ LeftTap
    /\ UNCHANGED <<prev, script, log, oracle, pins_given>>

SpecHandles ==
    Init /\ [][NextHandles]_vars

----------------------------------------------------------------------------
(* A client that retries djtg_enable until it succeeds *)

RetryFreqRequests ==
    {2000000}

RetryActions ==
    \/ djtg_enable
    \/ djtg_disable
    \/ djtg_set_speed(RetryFreqRequests)
    \/ ReturnToCaller

\* script holds the djtg_enable call that has failed and is to be made again:
\* while there is one, it is the only call the client makes.
RetryClient ==
    IF pc = "idle"
    THEN IF script # <<>>
         THEN args' = Head(script) /\ script' = script
         ELSE script' = script
    ELSE IF pc = "return" /\ args.fn = "djtg_enable"
    THEN script' = IF ret = FALSE_ THEN <<args>> ELSE <<>>
    ELSE script' = script

NextRetry ==
    /\ RetryActions
    /\ RetryClient
    /\ UNCHANGED <<prev, log, oracle, pins_given, left_tap>>

SpecRetry ==
    Init /\ [][NextRetry]_vars

\* The retried djtg_enable does not draw the communication error.
RetrySucceeds ==
    /\ pc = "idle"
    /\ script # <<>>
    /\ ret' = TRUE_
    /\ NextRetry

\* The client goes on after each return, and the communication error, drawn
\* with probability 0.01 at each attempt, is not drawn at every attempt.
FairSpecRetry ==
    /\ SpecRetry
    /\ WF_vars(pc = "return" /\ NextRetry)
    /\ SF_vars(RetrySucceeds)

----------------------------------------------------------------------------
(* A client that makes one scan cycle: navigate, shift, exit *)

CycleScript ==
    <<"tap_reset", "navigate", "shift", "exit_to_run_test_idle", "end">>

\* The functions the client may call in a phase of the cycle.
PhaseFunctions(phase) ==
    CASE phase = "navigate" ->
             {"navigate_to_shift_ir", "navigate_to_shift_dr", "navigate_to_shift_dr_with_idle"}
      [] phase = "shift" -> {"shift_data_register", "shift_data_register_msb_first"}
      [] OTHER -> {phase}

InitCycle ==
    /\ Start
    /\ script = CycleScript
    /\ log = <<>>
    /\ oracle = "any"

CycleActions ==
    \/ tap_reset
    \/ navigate_to_shift_ir
    \/ navigate_to_shift_dr
    \/ navigate_to_shift_dr_with_idle
    \/ shift_data_register
    \/ shift_data_register_msb_first
    \/ exit_to_run_test_idle
    \/ ReturnToCaller

\* The client calls a function of the phase at the head of its script.  After
\* tap_reset the log takes, for every step, the function that made it and the
\* TAP state it led to; prev keeps the shift call that has returned.
NextCycle ==
    /\ CycleActions
    /\ IF pc = "idle"
       THEN pc' \in PhaseFunctions(Head(script)) /\ script' = Tail(script)
       ELSE script' = script
    /\ log' = IF Len(calls') > Len(calls) /\ pc # "tap_reset"
              THEN Append(log, [fn |-> pc, tap |-> tap'])
              ELSE log
    /\ prev' = IF pc = "return" /\ args.fn \in PhaseFunctions("shift")
               THEN [fn |-> args.fn, bit_count |-> args.bit_count, data |-> args.data]
               ELSE prev
    /\ UNCHANGED <<oracle, pins_given, left_tap>>

SpecCycle ==
    InitCycle /\ [][NextCycle]_vars

----------------------------------------------------------------------------
(* The bit / byte codec (bytes_to_bits, bits_to_bytes) *)

MaxBytes == 2

ByteValues ==
    {0, 1, 128, 165, 255}

RECURSIVE SeqsUpTo(_, _)
\* The sequences over S of length at most n.
SeqsUpTo(S, n) ==
    IF n = 0 THEN {<<>>}
    ELSE LET shorter == SeqsUpTo(S, n - 1) IN
         shorter \cup {Append(q, x) : q \in shorter, x \in S}

CodecBytes ==
    SeqsUpTo(ByteValues, MaxBytes)

bytes_to_bits_msb_first(bytes, bit_count) ==
    [k \in 1 .. bit_count |-> BitOf(bytes[((k - 1) \div 8) + 1], 7 - ((k - 1) % 8))]

\* std::vector<bool> bytes_to_bits(const std::vector<uint8_t>& bytes, int bit_count)
bytes_to_bits(bytes, bit_count) ==
    [k \in 1 .. bit_count |-> BitOf(bytes[((k - 1) \div 8) + 1], (k - 1) % 8)]

\* The indices i/8 at which the loop of bytes_to_bits reads bytes.
bytes_to_bits_reads(bit_count) ==
    {k \div 8 : k \in 0 .. bit_count - 1}

bits_to_bytes_size_one_more(n) ==
    CDiv(n + 8, 8)

\* (bits.size() + 7) / 8
bits_to_bytes_size(n) ==
    CDiv(n + 7, 8)

RECURSIVE bits_to_bytes_loop(_, _, _)
\* for (size_t i = 0; i < bits.size(); i++) if (bits[i]) bytes[i/8] |= (1 << (i % 8));
bits_to_bytes_loop(bytes, bits, k) ==
    IF k >= Len(bits) THEN bytes
    ELSE bits_to_bytes_loop(
             IF bits[k + 1] = 1
             THEN [bytes EXCEPT ![(k \div 8) + 1] = OrBit(@, k % 8)]
             ELSE bytes,
             bits, k + 1)

\* std::vector<uint8_t> bits_to_bytes(const std::vector<bool>& bits)
bits_to_bytes(bits) ==
    bits_to_bytes_loop([b \in 1 .. bits_to_bytes_size(Len(bits)) |-> 0], bits, 0)

\* A call of bytes_to_bits that stays inside bytes.
bytes_to_bits_call(byte_seqs) ==
    \E bytes \in byte_seqs, bit_count \in 0 .. 8 * MaxBytes :
        /\ bit_count <= 8 * Len(bytes)
        /\ Finish([fn |-> "bytes_to_bits", bytes |-> bytes, bit_count |-> bit_count],
                  NoValue,
                  [bits |-> bytes_to_bits(bytes, bit_count),
                   reads |-> bytes_to_bits_reads(bit_count)], <<>>)
        /\ UNCHANGED <<device_registry, tap, tdo_data>>

\* A call of bits_to_bytes.
bits_to_bytes_call(bit_seqs) ==
    \E bits \in bit_seqs :
        /\ Finish([fn |-> "bits_to_bytes", bits |-> bits], NoValue,
                  [bytes |-> bits_to_bytes(bits)], <<>>)
        /\ UNCHANGED <<device_registry, tap, tdo_data>>

\* The client unpacks a byte sequence and packs the bits it got.
CodecActions ==
    \/ prev.fn = "other" /\ bytes_to_bits_call(CodecBytes)
    \/ prev.fn = "bytes_to_bits" /\ bits_to_bytes_call({prev.bits})
    \/ ReturnToCaller

NextCodec ==
    /\ CodecActions
    /\ prev' = IF pc = "return"
               THEN IF args.fn = "bytes_to_bits"
                    THEN [fn |-> args.fn, bytes |-> args.bytes,
                          bit_count |-> args.bit_count, bits |-> out.bits]
                    ELSE [fn |-> "other"]
               ELSE prev
    /\ UNCHANGED <<script, log, oracle, pins_given, left_tap>>

SpecCodec ==
    Init /\ [][NextCodec]_vars

----------------------------------------------------------------------------
(* The bulk shifts on vectors of two bytes, with the handles enabled or absent *)

\* The least bit count that reaches the second byte of the vectors.
WideCbit ==
    8 + 1

BulkCbits ==
    (0 .. MaxCbit) \cup {WideCbit, TimeoutCbit}

\* TMS 0,1,0,0,0,0,0,0,1 and TDI its complement, LSB first; a TDO array
\* with every bit set.
BulkTms ==
    {<<2, 1>>}

BulkTdi ==
    {<<253, 254>>}

BulkTdo ==
    {<<255, 255>>}

\* Bit counts on both sides of the timeout estimate's steps.
ProbeCbits ==
    {0, default_timeout_ms * 1000 - 1, default_timeout_ms * 1000,
     TimeoutCbit - 1, TimeoutCbit, TimeoutCbit + 1, 2 * TimeoutCbit}

BulkActions ==
    \/ djtg_enable
    \/ BulkShift("djtg_put_tms_tdi_bits", BulkTms, BulkTdi, BulkTdo, BulkCbits, {0, 1})
    \/ BulkShift("djtg_get_tms_tdi_tdo_bits", BulkTms, BulkTdi, BulkTdo, BulkCbits, {0, 1})
    \/ pre_flight(ProbeCbits)
    \/ ReturnToCaller

NextBulk ==
    /\ BulkActions
    /\ UNCHANGED <<prev, script, log, oracle, pins_given, left_tap>>

SpecBulk ==
    Init /\ [][NextBulk]_vars

\* A call that has started runs on: the function is sequential code and each
\* sv_jtag_step returns.
FairSpecBulk ==
    SpecBulk /\ WF_vars(pc \notin {"idle", "return"} /\ NextBulk)

----------------------------------------------------------------------------
(* Vocabulary of the properties *)

\* The running function is fn (it is between its call and its return to the caller).
Running(fn) ==
    args.fn = fn

\* fn has executed its return statement: every call it makes has been made.
Returned(fn) ==
    pc = "return" /\ args.fn = fn

TmsOf(cs) ==
    [k \in 1 .. Len(cs) |-> cs[k].tms]

TdiOf(cs) ==
    [k \in 1 .. Len(cs) |-> cs[k].tdi]

IsPrefix(p, q) ==
    Len(p) <= Len(q) /\ \A k \in 1 .. Len(p) : p[k] = q[k]

\* Every call so far is a step with TDI = 0 and isLast = 0.
PlainSteps(cs) ==
    \A k \in 1 .. Len(cs) :
        cs[k].prim = "sv_jtag_step" /\ cs[k].tdi = 0 /\ cs[k].is_last = 0

StepCalls(cs) ==
    {k \in 1 .. Len(cs) : cs[k].prim = "sv_jtag_step"}

----------------------------------------------------------------------------
(* Properties of the TAP navigation helpers *)

\* C1: tap_reset, called with the TAP in any state, issues exactly the six
\* steps TMS = 1,1,1,1,1,0 in that order with TDI = 0 and isLast = 0; the TAP
\* is in Test-Logic-Reset after the fifth and in Run-Test-Idle after the sixth.
C1_Reset ==
    /\ Running("tap_reset") =>
          /\ IsPrefix(TmsOf(calls), <<1, 1, 1, 1, 1, 0>>)
          /\ PlainSteps(calls)
          /\ Len(calls) >= 5 => calls[5].tap = "TestLogicReset"
    /\ Returned("tap_reset") =>
          /\ TmsOf(calls) = <<1, 1, 1, 1, 1, 0>>
          /\ calls[6].tap = "RunTestIdle"
          /\ tap = "RunTestIdle"

C1_Witness ==
    /\ Returned("tap_reset")
    /\ start_tap = "PauseIR"
    /\ Len(calls) = 6
    /\ tap = "RunTestIdle"

UpdateOrReset ==
    {"UpdateDR", "UpdateIR", "TestLogicReset"}

\* C2: from Run-Test-Idle, navigate_to_shift_ir issues TMS 1,1,0,0 and ends in
\* Shift-IR, navigate_to_shift_dr issues TMS 1,0,0 and ends in Shift-DR, both
\* with TDI = 0, and neither visits an Update state or Test-Logic-Reset.
C2_GotoShift ==
    /\ Running("navigate_to_shift_ir") =>
          /\ IsPrefix(TmsOf(calls), <<1, 1, 0, 0>>)
          /\ PlainSteps(calls)
          /\ start_tap = "RunTestIdle" => tap \notin UpdateOrReset
    /\ Returned("navigate_to_shift_ir") =>
          /\ TmsOf(calls) = <<1, 1, 0, 0>>
          /\ start_tap = "RunTestIdle" => tap = "ShiftIR"
    /\ Running("navigate_to_shift_dr") =>
          /\ IsPrefix(TmsOf(calls), <<1, 0, 0>>)
          /\ PlainSteps(calls)
          /\ start_tap = "RunTestIdle" => tap \notin UpdateOrReset
    /\ Returned("navigate_to_shift_dr") =>
          /\ TmsOf(calls) = <<1, 0, 0>>
          /\ start_tap = "RunTestIdle" => tap = "ShiftDR"

C2_Witness ==
    /\ Returned("navigate_to_shift_ir")
    /\ start_tap = "RunTestIdle"
    /\ tap = "ShiftIR"
    /\ Len(calls) = 4

\* C3: from Exit1-IR or Exit1-DR, exit_to_run_test_idle issues exactly two
\* steps, TMS = 1 then 0 with TDI = 0, is in the matching Update state after
\* the first and in Run-Test-Idle after the second.
C3_Exit ==
    /\ Running("exit_to_run_test_idle") =>
          /\ IsPrefix(TmsOf(calls), <<1, 0>>)
          /\ PlainSteps(calls)
          /\ (start_tap = "Exit1IR" /\ Len(calls) >= 1) => calls[1].tap = "UpdateIR"
          /\ (start_tap = "Exit1DR" /\ Len(calls) >= 1) => calls[1].tap = "UpdateDR"
    /\ Returned("exit_to_run_test_idle") =>
          /\ TmsOf(calls) = <<1, 0>>
          /\ start_tap \in {"Exit1IR", "Exit1DR"} => tap = "RunTestIdle"

C3_Witness ==
    /\ Returned("exit_to_run_test_idle")
    /\ start_tap = "Exit1DR"
    /\ calls[1].tap = "UpdateDR"
    /\ tap = "RunTestIdle"

----------------------------------------------------------------------------
(* Properties of the word-level shifts *)

\* TMS (and isLast) of the k-th of n shift clocks: 1 on the last one only.
LastOnly(cs, n) ==
    \A k \in 1 .. Len(cs) :
        /\ cs[k].prim = "sv_jtag_step"
        /\ cs[k].tms = (IF k = n THEN 1 ELSE 0)
        /\ cs[k].is_last = cs[k].tms

\* C5: shift_data_register(hif, data, bit_count, _) issues exactly bit_count
\* steps in index order; step i carries TDI = bit i of data and TMS = isLast =
\* 1 exactly when i = bit_count - 1; bit i of the returned value is the TDO of
\* step i.
C5_ShiftLsbFirst ==
    /\ Running("shift_data_register") =>
          /\ Len(calls) <= args.bit_count
          /\ Len(calls) = i
          /\ LastOnly(calls, args.bit_count)
          /\ \A k \in 1 .. Len(calls) :
                /\ calls[k].tdi = BitOf(args.data, k - 1)
                /\ BitOf(result, k - 1) = calls[k].tdo
    /\ Returned("shift_data_register") =>
          /\ Len(calls) = args.bit_count
          /\ ret = result

C5_Witness ==
    /\ Returned("shift_data_register")
    /\ args.bit_count = 3
    /\ args.data = 5
    /\ TdiOf(calls) = <<1, 0, 1>>
    /\ TmsOf(calls) = <<0, 0, 1>>
    /\ ret = 6

DelayedLoopback(cs) ==
    \A k \in 2 .. Len(cs) : cs[k].tdo = cs[k - 1].tdi

\* The oracle answered as a loopback without delay: TDO is the TDI of the same call.
DirectLoopback(cs) ==
    \A k \in 1 .. Len(cs) : cs[k].tdo = cs[k].tdi

\* C7 as stated: with a loopback delayed by one call, bit i of the value of
\* shift_data_register is the TDI driven for bit i.
C7_AsStated ==
    (Returned("shift_data_register") /\ DelayedLoopback(calls)) =>
        \A k \in 1 .. Len(calls) : BitOf(ret, k - 1) = calls[k].tdi

\* C7 amended: with a loopback without delay, bit i of the value is the TDI
\* driven for bit i; with a loopback delayed by one call, bit i (i >= 1) of the
\* value is the TDI driven for bit i - 1.
C7_Loopback ==
    Returned("shift_data_register") =>
        /\ DirectLoopback(calls) =>
              \A k \in 1 .. Len(calls) :
                  BitOf(ret, k - 1) = calls[k].tdi /\ calls[k].tdi = BitOf(args.data, k - 1)
        /\ DelayedLoopback(calls) =>
              \A k \in 2 .. Len(calls) :
                  BitOf(ret, k - 1) = calls[k - 1].tdi /\ calls[k - 1].tdi = BitOf(args.data, k - 2)

C7_Witness ==
    /\ Returned("shift_data_register")
    /\ args.bit_count = 3
    /\ args.data = 1
    /\ DelayedLoopback(calls)
    /\ calls[1].tdo = 0
    /\ ret = 2

Enabled(h) ==
    h \in DOMAIN device_registry /\ device_registry[h].enabled

ShiftFunctions ==
    {"shift_data_register", "shift_data_register_msb_first", "djtg_put_tms_tdi_bits",
     "djtg_get_tms_tdi_tdo_bits"}

\* C8: no step is issued on behalf of a handle that is not enabled: a shift
\* called with such a handle issues no sv_jtag_step.
C8_EnabledGatesShifts ==
    (args.fn \in ShiftFunctions /\ ~Enabled(args.hif)) => StepCalls(calls) = {}

----------------------------------------------------------------------------
(* Properties of the handle lifecycle *)

BulkFunctions ==
    {"djtg_put_tms_tdi_bits", "djtg_get_tms_tdi_tdo_bits"}

ApiFunctions ==
    {"djtg_enable", "djtg_disable", "djtg_set_speed", "djtg_get_speed",
     "djtg_set_tms_tdi_tck", "djtg_get_tms_tdi_tdo_tck"} \cup BulkFunctions

\* The call in progress has failed: it is at its return statement with FALSE.
Failed ==
    pc = "return" /\ args.fn \in ApiFunctions /\ ret = FALSE_

\* C9: djtg_disable on a handle that was never enabled fails; from a
\* successful djtg_disable(h) until the next successful djtg_enable(h), every
\* bulk shift (put / get), djtg_set_speed, djtg_get_speed and djtg_disable on h
\* fails.
C9_DisabledHandleFails ==
    /\ (Running("djtg_disable") /\ lifecycle[args.hif] = "never") => Failed
    /\ ( /\ args.fn \in {"djtg_disable", "djtg_set_speed", "djtg_get_speed"} \cup BulkFunctions
         /\ lifecycle[args.hif] = "disabled" )
       => Failed

C9_Witness ==
    /\ Failed
    /\ args.fn = "djtg_set_speed"
    /\ lifecycle[args.hif] = "disabled"
    /\ args.hif \in DOMAIN device_registry
    /\ device_registry[args.hif].clock_freq # default_clock_freq

\* C10: a failing call leaves the device registry as it was at the call and
\* has issued no primitive call of any kind (step, pin drive, pin read), so
\* the TAP has not moved either.
C10_FailureHasNoEffect ==
    Failed =>
        /\ device_registry = start_registry
        /\ calls = <<>>
        /\ tap = start_tap

C10_Witness ==
    /\ Failed
    /\ args.fn = "djtg_enable"
    /\ args.hif \in DOMAIN device_registry
    /\ device_registry[args.hif].enabled
    /\ device_registry[args.hif].clock_freq = min_freq
    /\ device_registry[args.hif].tms_state = 1
    /\ device_registry = start_registry

----------------------------------------------------------------------------
(* Properties of the adapter state after djtg_enable and djtg_set_speed *)

\* The call in progress has succeeded: it is at its return statement with TRUE.
Succeeded ==
    pc = "return" /\ args.fn \in ApiFunctions /\ ret = TRUE_

\* C11: a successful djtg_enable(h) leaves h enabled with clock frequency
\* 1 000 000 Hz, timeout 1000 ms, device id 0x12345678 and all four pins low,
\* whatever h held before; a djtg_get_speed(h) that is the next call after it
\* succeeds and reports 1 000 000.
C11_EnableResetsToDefaults ==
    /\ (Succeeded /\ args.fn = "djtg_enable") =>
          /\ args.hif \in DOMAIN device_registry
          /\ device_registry[args.hif] =
                [enabled |-> TRUE, clock_freq |-> 1000000, tck_state |-> 0,
                 tms_state |-> 0, tdi_state |-> 0, tdo_state |-> 0,
                 device_id |-> 305419896, timeout_ms |-> 1000]
    /\ ( /\ pc = "return" /\ args.fn = "djtg_get_speed"
         /\ prev.fn = "djtg_enable" /\ prev.hif = args.hif )
       => (ret = TRUE_ /\ out.freq_cur = 1000000)

C11_Witness ==
    /\ Succeeded
    /\ args.fn = "djtg_enable"
    /\ args.hif \in DOMAIN start_registry
    /\ start_registry[args.hif].clock_freq = max_freq
    /\ start_registry[args.hif].tms_state = 1
    /\ device_registry[args.hif].clock_freq = default_clock_freq

\* C12: djtg_set_speed on an enabled handle succeeds, and returns and stores
\* the request clamped to [1000, 50 000 000]: 50 000 000 for a larger request,
\* 1000 for a smaller one (zero and negative included), the request itself
\* otherwise; a djtg_get_speed on the same handle as the next call reports the
\* value djtg_set_speed returned.
C12_SetSpeedClamps ==
    /\ ( /\ pc = "return" /\ args.fn = "djtg_set_speed"
         /\ args.hif \in DOMAIN start_registry
         /\ start_registry[args.hif].enabled )
       => /\ ret = TRUE_
          /\ out.freq_set = IF args.freq_req > 50000000 THEN 50000000
                             ELSE IF args.freq_req < 1000 THEN 1000
                             ELSE args.freq_req
          /\ device_registry[args.hif].clock_freq = out.freq_set
    /\ ( /\ pc = "return" /\ args.fn = "djtg_get_speed"
         /\ prev.fn = "djtg_set_speed" /\ prev.hif = args.hif )
       => (ret = TRUE_ /\ out.freq_cur = prev.freq_set)

C12_Witness ==
    /\ Succeeded
    /\ args.fn = "djtg_get_speed"
    /\ prev.fn = "djtg_set_speed"
    /\ prev.hif = args.hif
    /\ prev.freq_set = min_freq
    /\ out.freq_cur = min_freq

\* C13: in every reachable state, whatever calls of djtg_enable, djtg_disable,
\* djtg_set_speed, the static pin functions and the bulk shifts came before,
\* the clock frequency of every handle in the registry lies in
\* [1000, 50 000 000].
C13_FrequencyInRange ==
    \A h \in DOMAIN device_registry :
        /\ device_registry[h].clock_freq >= 1000
        /\ device_registry[h].clock_freq <= 50000000

C13_Witness ==
    /\ Succeeded
    /\ args.fn = "djtg_set_speed"
    /\ args.freq_req > max_freq
    /\ device_registry[args.hif].clock_freq = max_freq
    /\ \E h \in DOMAIN device_registry :
          /\ h # args.hif
          /\ device_registry[h].clock_freq = min_freq
          /\ ~device_registry[h].enabled

----------------------------------------------------------------------------
(* Properties of the bulk shifts *)

\* The handle of the call in progress was enabled when the call was made.
EnabledAtCall ==
    args.hif \in DOMAIN start_registry /\ start_registry[args.hif].enabled

\* C14: on an enabled handle the bulk shift fails with Timeout exactly when
\* the integer quotient cbit / 1000 exceeds the handle's timeout; with the
\* default timeout of 1000 ms every bit count up to 1 000 999 passes; and a
\* bulk shift that fails with Timeout has issued no step.
C14_TimeoutIsPreFlight ==
    /\ (pc = "return" /\ args.fn = "pre_flight" /\ EnabledAtCall) =>
          /\ out.verdict \in {"Timeout", "ok"}
          /\ out.verdict = "Timeout" <=>
                (args.cbit \div 1000) > start_registry[args.hif].timeout_ms
          /\ args.cbit <= 1000999 => out.verdict = "ok"
    /\ (pc = "return" /\ args.fn \in BulkFunctions /\ EnabledAtCall) =>
          /\ ret = FALSE_ <=>
                (args.cbit \div 1000) > start_registry[args.hif].timeout_ms
          /\ ret = FALSE_ => calls = <<>> /\ tap = start_tap

C14_Witness ==
    /\ pc = "return"
    /\ args.fn = "pre_flight"
    /\ EnabledAtCall
    /\ args.cbit = 1000999
    /\ out.verdict = "ok"

\* Bit (idx mod 8) of byte idx / 8 of a vector, bytes and bits counted from 0.
VectorBit(vec, idx) ==
    (vec[(idx \div 8) + 1] \div Pow2(idx % 8)) % 2

\* A bulk shift that has passed the pre-flight checks: running or returned.
BulkPassed ==
    args.fn \in BulkFunctions /\ ~Failed

BulkSucceeded ==
    pc = "return" /\ args.fn \in BulkFunctions /\ ret = TRUE_

\* C15: a bulk shift that passes the pre-flight checks with cbit = n >= 0
\* issues steps only, one per bit index in increasing order, n of them when it
\* returns (none for n = 0); the step for index k carries as TMS bit (k mod 8)
\* of byte k / 8 of the TMS vector and as TDI the same bit of the TDI vector,
\* and isLast = 1 on the step for index n - 1 and on no other.
C15_BulkShiftCalls ==
    /\ BulkPassed =>
          /\ Len(calls) <= args.cbit
          /\ pc # "return" => i = Len(calls)
          /\ \A k \in 1 .. Len(calls) :
                /\ calls[k].prim = "sv_jtag_step"
                /\ calls[k].tms = VectorBit(args.tms_data, k - 1)
                /\ calls[k].tdi = VectorBit(args.tdi_data, k - 1)
                /\ calls[k].is_last = 1 <=> k - 1 = args.cbit - 1
                /\ calls[k].is_last \in Bit
    /\ BulkSucceeded => Len(calls) = args.cbit

C15_Witness ==
    /\ BulkSucceeded
    /\ args.fn = "djtg_put_tms_tdi_bits"
    /\ args.cbit = WideCbit
    /\ Len(calls) = WideCbit
    /\ calls[2].tms = 1 /\ calls[2].tdi = 0 /\ calls[2].is_last = 0
    /\ calls[WideCbit].tms = 1 /\ calls[WideCbit].tdi = 0 /\ calls[WideCbit].is_last = 1

\* C16: when a bulk shift of n bits has succeeded, the first ceil(n / 8)
\* bytes of the TDO array hold, at bit (k mod 8) of byte k / 8, the TDO that
\* the step for index k returned, for every k < n, and 0 at every bit position
\* from n on, whatever the array held at the call.
C16_BulkShiftOutput ==
    BulkSucceeded =>
        /\ \A k \in 0 .. args.cbit - 1 :
              VectorBit(tdo_data, k) = calls[k + 1].tdo
        /\ \A k \in args.cbit .. 8 * ((args.cbit + 7) \div 8) - 1 :
              VectorBit(tdo_data, k) = 0
        /\ \A b \in 1 .. (args.cbit + 7) \div 8 : tdo_data[b] \in 0 .. 255

C16_Witness ==
    /\ BulkSucceeded
    /\ args.cbit = WideCbit
    /\ args.tdo_in = <<255, 255>>
    /\ tdo_data = <<165, 1>>

TdoOf(cs) ==
    [k \in 1 .. Len(cs) |-> cs[k].tdo]

\* Byte b (from 1) of the TDO array after n bits whose steps returned tdos.
ExpectedByte(tdos, b, n) ==
    LET T(k) == IF k < n THEN tdos[k + 1] ELSE 0
        k0 == 8 * (b - 1) IN
    T(k0) + 2 * T(k0 + 1) + 4 * T(k0 + 2) + 8 * T(k0 + 3) + 16 * T(k0 + 4)
        + 32 * T(k0 + 5) + 64 * T(k0 + 6) + 128 * T(k0 + 7)

\* What a bulk shift returns, issues and leaves in the TDO array, from the
\* state of the handle at the call, the three vectors, the bit count and the
\* TDO answers alone.
ExpectedOutcome(enabled, tms_data, tdi_data, tdo_in, cbit, tdos) ==
    IF ~enabled \/ (cbit \div 1000) > 1000
    THEN [ret |-> FALSE_, steps |-> <<>>, tdo_data |-> tdo_in]
    ELSE [ret |-> TRUE_,
          steps |-> [k \in 1 .. cbit |->
                       <<VectorBit(tms_data, k - 1), VectorBit(tdi_data, k - 1),
                         IF k = cbit THEN 1 ELSE 0>>],
          tdo_data |-> [b \in 1 .. Len(tdo_in) |->
                          IF b <= (cbit + 7) \div 8
                          THEN ExpectedByte(tdos, b, cbit) ELSE tdo_in[b]]]

\* C17: djtg_get_tms_tdi_tdo_bits and djtg_put_tms_tdi_bits are the same
\* operation and the overlap flag changes nothing: the value returned, the
\* steps issued and the TDO array at the return are a function of the handle's
\* state at the call, the vectors, the bit count and the TDO answers, the same
\* function for both names and both values of overlap.
C17_GetIsPut ==
    (pc = "return" /\ args.fn \in BulkFunctions) =>
        [ret |-> ret,
         steps |-> [k \in 1 .. Len(calls) |->
                      <<calls[k].tms, calls[k].tdi, calls[k].is_last>>],
         tdo_data |-> tdo_data]
        = ExpectedOutcome(EnabledAtCall, args.tms_data, args.tdi_data, args.tdo_in,
                          args.cbit, TdoOf(calls))

C17_Witness ==
    /\ BulkSucceeded
    /\ args.fn = "djtg_get_tms_tdi_tdo_bits"
    /\ args.overlap = 1
    /\ args.cbit = WideCbit
    /\ TmsOf(calls) = <<0, 1, 0, 0, 0, 0, 0, 0, 1>>
    /\ tdo_data = <<90, 0>>

\* C18: a bulk shift, whether it succeeds or fails, leaves the registry entry
\* of every handle as it was at the call, at each of its steps and at its
\* return; all it does is issue steps.
C18_BulkShiftKeepsRegistry ==
    args.fn \in BulkFunctions =>
        /\ device_registry = start_registry
        /\ \A k \in 1 .. Len(calls) : calls[k].prim = "sv_jtag_step"

C18_Witness ==
    /\ BulkSucceeded
    /\ Len(calls) = 2
    /\ calls[2].tdo = 1
    /\ device_registry[args.hif].clock_freq = max_freq
    /\ device_registry[args.hif].tdo_state = 0
    /\ \E h \in DOMAIN device_registry :
          /\ h # args.hif
          /\ ~device_registry[h].enabled
          /\ device_registry[h].clock_freq = min_freq

\* C19: a bulk shift that has passed the pre-flight checks neither fails nor
\* stops short: a bulk shift never returns failure after it has issued a step,
\* one that has issued a step returns success with exactly cbit steps issued,
\* and, each sv_jtag_step returning, a bulk shift that is running does reach
\* its return with success and exactly cbit steps issued.
C19_BulkShiftCompletes ==
    /\ [](IF pc = "return" /\ args.fn \in BulkFunctions /\ calls # <<>>
          THEN ret = TRUE_ /\ Len(calls) = args.cbit
          ELSE TRUE)
    /\ [](IF pc \in BulkFunctions THEN Len(calls) <= args.cbit ELSE TRUE)
    /\ (pc \in BulkFunctions)
          ~> (IF pc = "return" /\ args.fn \in BulkFunctions
              THEN ret = TRUE_ /\ Len(calls) = args.cbit
              ELSE FALSE)

C19_Witness ==
    /\ BulkSucceeded
    /\ args.fn = "djtg_put_tms_tdi_bits"
    /\ args.overlap = 0
    /\ Len(calls) = WideCbit
    /\ TdoOf(calls) = <<1, 0, 0, 0, 0, 0, 0, 0, 1>>

----------------------------------------------------------------------------
(* Properties of a fixed sequence of navigation calls *)

----------------------------------------------------------------------------
(* Properties of the IDCODE read *)

\* C21: after djtg_enable(1), djtg_set_speed(1, 10 000 000), tap_reset,
\* navigate_to_shift_ir, shift_data_register(1, 0x1, 4, true),
\* exit_to_run_test_idle and navigate_to_shift_dr_with_idle, the call
\* shift_data_register(1, 0, 32, false), each of whose steps is answered with
\* the next bit of 0x12345678, finds the TAP in Shift-DR at each of its 32
\* steps and returns 0x12345678.
C21_IdcodeRead ==
    (args.fn = "shift_data_register" /\ args.bit_count = 32) =>
        /\ start_tap = "ShiftDR"
        /\ \A k \in 1 .. Len(calls) : k < 32 => calls[k].tap = "ShiftDR"
        /\ pc = "return" => (ret = 305419896 /\ Len(calls) = 32)

C21_Witness ==
    /\ pc = "return"
    /\ args.fn = "shift_data_register"
    /\ args.bit_count = 32
    /\ script = <<EndOfScript>>
    /\ Enabled(1)
    /\ device_registry[1].clock_freq = 10000000
    /\ ret = device_id
    /\ tap = "Exit1DR"

----------------------------------------------------------------------------
(* Properties of the bit / byte codec *)

\* bits_to_bytes has returned, called with the bits that the bytes_to_bits
\* call before it returned.
PackedAfterUnpack ==
    /\ pc = "return"
    /\ args.fn = "bits_to_bytes"
    /\ prev.fn = "bytes_to_bits"
    /\ args.bits = prev.bits

\* C22: for every byte sequence, the empty one included, bits_to_bytes of
\* bytes_to_bits of the sequence with bit count 8 * its length is the
\* sequence.
C22_CodecRoundTrip ==
    (PackedAfterUnpack /\ prev.bit_count = 8 * Len(prev.bytes)) => out.bytes = prev.bytes

C22_Witness ==
    /\ PackedAfterUnpack
    /\ prev.bytes = <<165, 128>>
    /\ prev.bit_count = 16
    /\ out.bytes = <<165, 128>>

\* C23: for every byte sequence and bit count from 0 to 8 * its length,
\* bytes_to_bits returns bit-count bits, bit k being bit (k mod 8) of byte
\* k / 8, and reads no byte at an index from ceil(bit count / 8) on;
\* bits_to_bytes of these bits has ceil(bit count / 8) bytes, which agree with
\* the sequence on the first bit-count bit positions and are 0 at every later
\* bit position of the last byte.
C23_CodecBits ==
    /\ (pc = "return" /\ args.fn = "bytes_to_bits") =>
          /\ Len(out.bits) = args.bit_count
          /\ \A k \in 0 .. args.bit_count - 1 :
                out.bits[k + 1] = VectorBit(args.bytes, k)
          /\ \A b \in out.reads : b >= 0 /\ b < (args.bit_count + 7) \div 8
    /\ PackedAfterUnpack =>
          /\ Len(out.bytes) = (prev.bit_count + 7) \div 8
          /\ \A k \in 0 .. prev.bit_count - 1 :
                VectorBit(out.bytes, k) = VectorBit(prev.bytes, k)
          /\ \A k \in prev.bit_count .. 8 * Len(out.bytes) - 1 :
                VectorBit(out.bytes, k) = 0

C23_Witness ==
    /\ PackedAfterUnpack
    /\ prev.bytes = <<165, 255>>
    /\ prev.bit_count = 11
    /\ out.bytes = <<165, 7>>

----------------------------------------------------------------------------
(* Properties of the static pin functions *)

\* C24: a successful djtg_get_tms_tdi_tdo_tck returns as tms, tdi and tck the
\* levels of the last successful djtg_set_tms_tdi_tck on the handle since the
\* handle's last enable (all low when there was none); the tdo it returns is
\* the one read by its sv_get_tdo call, and is stored as the handle's
\* tdo_state.
C24_GetPinsReturnsLastSet ==
    (pc = "return" /\ args.fn = "djtg_get_tms_tdi_tdo_tck" /\ ret = TRUE_) =>
        /\ [tms |-> out.tms, tdi |-> out.tdi, tck |-> out.tck] = pins_given[args.hif]
        /\ \E k \in 1 .. Len(calls) :
              calls[k].prim = "sv_get_tdo" /\ out.tdo = calls[k].tdo
        /\ device_registry[args.hif].tdo_state = out.tdo

C24_Witness ==
    /\ pc = "return"
    /\ args.fn = "djtg_get_tms_tdi_tdo_tck"
    /\ ret = TRUE_
    /\ pins_given[args.hif] = [tms |-> 1, tdi |-> 0, tck |-> 1]
    /\ out.tms = 1 /\ out.tdi = 0 /\ out.tck = 1
    /\ out.tdo = 1
    /\ start_registry[args.hif].tdo_state = 0

PinFunctions ==
    {"djtg_set_tms_tdi_tck", "djtg_get_tms_tdi_tdo_tck"}

\* C25: djtg_set_tms_tdi_tck and djtg_get_tms_tdi_tdo_tck call no
\* sv_jtag_step and leave the TAP where it was; a successful set makes exactly
\* one primitive call, the pin drive with the given (tck, tms, tdi), a
\* successful get exactly one, the TDO read; both leave the handle's enabled
\* flag and clock frequency as they were.
C25_StaticPinsDoNotClock ==
    (pc = "return" /\ args.fn \in PinFunctions) =>
        /\ StepCalls(calls) = {}
        /\ tap = start_tap
        /\ DOMAIN device_registry = DOMAIN start_registry
        /\ \A h \in DOMAIN device_registry :
              /\ device_registry[h].enabled = start_registry[h].enabled
              /\ device_registry[h].clock_freq = start_registry[h].clock_freq
        /\ (ret = TRUE_ /\ args.fn = "djtg_set_tms_tdi_tck") =>
              calls = << [prim |-> "sv_drive_jtag_pins", tck |-> args.tck,
                          tms |-> args.tms, tdi |-> args.tdi] >>
        /\ (ret = TRUE_ /\ args.fn = "djtg_get_tms_tdi_tdo_tck") =>
              (Len(calls) = 1 /\ calls[1].prim = "sv_get_tdo")

C25_Witness ==
    /\ Succeeded
    /\ args.fn = "djtg_set_tms_tdi_tck"
    /\ tap = "RunTestIdle"
    /\ device_registry[args.hif].clock_freq = max_freq
    /\ start_registry[args.hif].tms_state = 0
    /\ Len(calls) = 1
    /\ calls[1].tms = 1

----------------------------------------------------------------------------
(* Properties of calls on two handles *)

\* A call on a handle leaves the registry entry of every other handle as it
\* was.
OtherEntriesKept ==
    (pc = "return" /\ args.fn \in ApiFunctions) =>
        \A h \in DOMAIN start_registry :
            h # args.hif =>
                (h \in DOMAIN device_registry /\ device_registry[h] = start_registry[h])

\* C26: the calls made on one handle leave unchanged what the other handle
\* observes: a call on a handle leaves the registry entry of every other handle
\* as it was, and a bulk shift on an enabled handle starts from the TAP state
\* that the calls on this handle alone lead to, whatever was done on the other
\* handle in between.
C26_HandlesIndependent ==
    /\ OtherEntriesKept
    /\ (args.fn \in BulkFunctions /\ EnabledAtCall) => start_tap = left_tap[args.hif]

----------------------------------------------------------------------------
(* Properties of the communication error of djtg_enable *)

\* djtg_enable(h) has returned FALSE.
EnableFailed(h) ==
    IF pc = "return"
    THEN IF args.fn = "djtg_enable" THEN args.hif = h /\ ret = FALSE_ ELSE FALSE
    ELSE FALSE

\* djtg_enable(h) has returned TRUE and h is enabled.
EnableSucceeded(h) ==
    IF pc = "return"
    THEN IF args.fn = "djtg_enable"
         THEN args.hif = h /\ ret = TRUE_ /\ Enabled(h)
         ELSE FALSE
    ELSE FALSE

\* C27: a djtg_enable(h) that fails leaves the registry, h's entry included,
\* as it was at the call; and when the caller makes the call again after each
\* failure, a djtg_enable(h) that succeeds, with h enabled, follows every one
\* that failed.
C27_EnableRetrySucceeds ==
    /\ [](\A h \in Handles : EnableFailed(h) => device_registry = start_registry)
    /\ \A h \in Handles : EnableFailed(h) ~> EnableSucceeded(h)

C27_Witness ==
    /\ EnableSucceeded(1)
    /\ script = <<args>>
    /\ 1 \in DOMAIN start_registry
    /\ ~start_registry[1].enabled
    /\ start_registry[1].clock_freq = 2000000

----------------------------------------------------------------------------
(* Properties of a scan cycle *)

\* The steps of the log made by a function of fns.
LogOf(fns) ==
    {k \in 1 .. Len(log) : log[k].fn \in fns}

\* The register a navigation function selects.
ScanOf(fn) ==
    IF fn = "navigate_to_shift_ir" THEN "IR" ELSE "DR"

\* C28: from Run-Test-Idle, a navigation function, then a shift of
\* bit_count >= 1 bits (LSB or MSB first, any data), then
\* exit_to_run_test_idle: the TAP is in Shift-IR (resp. Shift-DR) after the
\* navigation and after each of the first bit_count - 1 shift steps, in
\* Exit1-IR (resp. Exit1-DR) after the last shift step, passes Update-IR
\* (resp. Update-DR) exactly once, and is in Run-Test-Idle at the end.
C28_ScanCycle ==
    ( /\ pc = "return" /\ args.fn = "exit_to_run_test_idle" /\ script = <<"end">>
      /\ prev.bit_count >= 1 ) =>
        LET nav   == LogOf(PhaseFunctions("navigate"))
            shift == LogOf(PhaseFunctions("shift"))
            n     == Cardinality(nav)
            b     == Cardinality(shift)
            x     == ScanOf(log[1].fn)
        IN  /\ start_tap = "Exit1" \o x
            /\ nav = 1 .. n
            /\ shift = (n + 1) .. (n + b)
            /\ b = prev.bit_count
            /\ log[n].tap = "Shift" \o x
            /\ \A k \in shift : k < n + b => log[k].tap = "Shift" \o x
            /\ log[n + b].tap = "Exit1" \o x
            /\ Cardinality({k \in 1 .. Len(log) : log[k].tap = "Update" \o x}) = 1
            /\ \A k \in 1 .. Len(log) : log[k].tap \notin {"UpdateIR", "UpdateDR"} \ {"Update" \o x}
            /\ tap = "RunTestIdle"

C28_Witness ==
    /\ pc = "return"
    /\ args.fn = "exit_to_run_test_idle"
    /\ script = <<"end">>
    /\ log[1].fn = "navigate_to_shift_ir"
    /\ prev.fn = "shift_data_register_msb_first"
    /\ prev.bit_count = 3
    /\ prev.data = 5
    /\ \E k \in 1 .. Len(log) : log[k].tap = "UpdateIR"
    /\ tap = "RunTestIdle"

----------------------------------------------------------------------------
(* Properties of run_counter_jtag_tests *)

NavigationFunctions ==
    {"navigate_to_shift_ir", "navigate_to_shift_dr", "navigate_to_shift_dr_with_idle"}

\* C29: in run_counter_jtag_tests every call of navigate_to_shift_ir,
\* navigate_to_shift_dr and navigate_to_shift_dr_with_idle is made with the TAP
\* in Run-Test-Idle, every call of exit_to_run_test_idle with the TAP in
\* Exit1-IR or Exit1-DR, and each of the nine tests returns with the TAP in
\* Run-Test-Idle.
C29_NavigationPreconditions ==
    /\ args.fn \in NavigationFunctions => start_tap = "RunTestIdle"
    /\ args.fn = "exit_to_run_test_idle" => start_tap \in {"Exit1IR", "Exit1DR"}
    /\ (pc = "return" /\ args.fn = "test_return") => tap = "RunTestIdle"

----------------------------------------------------------------------------
(* Properties of the is_instruction argument *)

\* The (TMS, TDI, is_last) of the steps of cs, in order.
StepArguments(cs) ==
    [k \in 1 .. Len(cs) |-> <<cs[k].tms, cs[k].tdi, cs[k].is_last>>]

\* The second call of a pair has returned: same data and bit count as the
\* first, the other is_instruction, and the same TDO answers.
PairReturned ==
    /\ pc = "return"
    /\ args.fn = "shift_data_register"
    /\ prev.fn = "shift_data_register"
    /\ args.data = prev.data
    /\ args.bit_count = prev.bit_count
    /\ args.is_instruction # prev.is_instruction
    /\ TdoOf(calls) = log

\* C30: two calls of shift_data_register with the same data and bit count and
\* the same TDO answers, one with is_instruction = true and one with false,
\* make the same sequence of (TMS, TDI, is_last) steps and return the same
\* value.
C30_IsInstructionIgnored ==
    PairReturned =>
        /\ StepArguments(calls) = StepArguments(prev.calls)
        /\ ret = prev.ret

C30_Witness ==
    /\ PairReturned
    /\ args.is_instruction
    /\ args.data = 5
    /\ args.bit_count = 3
    /\ ret = 6
    /\ prev.ret = 6

----------------------------------------------------------------------------
(* Properties of the shift through the bypass register *)

====
